---- MODULE Spec2Model ----
(***************************************************************************)
(* Raw-to-staging pipeline of create_staging_tables_fixed.py: destination  *)
(* naming, schema mirroring (create_stg_table) and the deduplicating merge *)
(* (move_data_deduplicated) over a small relational store.                 *)
(*                                                                         *)
(* Names (of tables and columns) are sequences of one-character strings so *)
(* that prefix tests and slicing are computed as the code computes them.   *)
(* A table is [exists, cols, rows]: cols is the ordered table descriptor   *)
(* (name, declared type), rows is a bag of rows, a row is a function from  *)
(* column name to value.                                                   *)
(***************************************************************************)
EXTENDS Integers, Sequences, FiniteSets, Bags, TLC

VARIABLES db, clock, last, prev, raw_table_name, derived, batch

vars == <<db, clock, last, prev, raw_table_name, derived, batch>>

(***************************************************************************)
(* Bounds                                                                  *)
(***************************************************************************)
MaxRawRows == 2
MaxStgRows == 3
MaxNameLen == 4
MaxRuns == 2

(***************************************************************************)
(* Names, values                                                           *)
(***************************************************************************)
NameChars == {"r", "R", "a", "A", "w", "W", "x", "_"}

RECURSIVE SeqsUpTo(_, _)
SeqsUpTo(S, n) ==
    IF n = 0 THEN {<<>>}
    ELSE LET shorter == SeqsUpTo(S, n - 1)
         IN  shorter \cup {Append(s, c) : s \in {t \in shorter : Len(t) = n - 1}, c \in S}

NameInputs == SeqsUpTo(NameChars, MaxNameLen)

NoName == <<"?">>

RawA == <<"R", "a", "w", "A">>

ColId == <<"i", "d">>
ColName == <<"n", "a", "m", "e">>
ColX == <<"_", "x">>
LoadedAt == <<"_", "l", "o", "a", "d", "e", "d", "_", "a", "t">>
SourceTable == <<"_", "s", "o", "u", "r", "c", "e", "_", "t", "a", "b", "l", "e">>

DataVals == {"a", "b"}
NULL == "NULL"

TimeStamps == <<"t0", "t1">>

datetime(now) == TimeStamps[now + 1]

(***************************************************************************)
(* Pure helpers of the script                                              *)
(***************************************************************************)
startswith(s, prefix) ==
    /\ Len(s) >= Len(prefix)
    /\ SubSeq(s, 1, Len(prefix)) = prefix

Slice3(s) == SubSeq(s, 4, Len(s))

create_stg_table_name_suffix(name) == name \o <<"_", "s", "t", "g">>

create_stg_table_name(name) ==
    IF startswith(name, <<"R", "a", "w">>) THEN <<"s", "t", "g">> \o Slice3(name)
    ELSE IF startswith(name, <<"r", "a", "w">>) THEN <<"s", "t", "g">> \o Slice3(name)
    ELSE IF startswith(name, <<"R", "A", "W">>) THEN <<"s", "t", "g">> \o Slice3(name)
    ELSE <<"s", "t", "g", "_">> \o name

(***************************************************************************)
(* Store                                                                   *)
(***************************************************************************)
NoTable == [exists |-> FALSE, cols |-> <<>>, rows |-> EmptyBag]

ApiSources == {RawA}
TableNames == ApiSources \cup {create_stg_table_name(s) : s \in ApiSources}

SourceSchemas ==
    { <<<<ColId, "INTEGER">>>>,
      <<<<ColId, "INTEGER">>, <<ColName, "TEXT">>>>,
      <<<<ColId, "INTEGER">>, <<ColX, "TEXT">>>>,
      <<<<ColId, "INTEGER">>, <<LoadedAt, "TEXT">>>>,
      <<<<ColX, "TEXT">>>> }

ColNamesOf(cols) == {cols[i][1] : i \in DOMAIN cols}

RowsOver(cols) == [ColNamesOf(cols) -> DataVals]

get_table_structure(d, table_name) ==
    IF table_name \in DOMAIN d /\ d[table_name].exists
    THEN d[table_name].cols
    ELSE <<>>

NotMeta(col) == ~startswith(col[1], <<"_">>)

get_column_names(d, table_name) ==
    LET columns == get_table_structure(d, table_name)
        kept == SelectSeq(columns, NotMeta)
    IN  [i \in DOMAIN kept |-> kept[i][1]]

count_duplicates_in_raw_total(d, raw) ==
    IF ~d[raw].exists THEN 0
    ELSE BagCardinality(d[raw].rows)

count_duplicates_in_raw(d, raw) ==
    IF ~d[raw].exists THEN 0
    ELSE BagCardinality(d[raw].rows) - Cardinality(BagToSet(d[raw].rows))


(***************************************************************************)
(* Storage engine: LIKE (ASCII case-insensitive, % and _ wildcards)        *)
(***************************************************************************)
UpperAlpha == <<"A", "B", "C", "D", "E", "F", "G", "H", "I", "J", "K", "L", "M",
                "N", "O", "P", "Q", "R", "S", "T", "U", "V", "W", "X", "Y", "Z">>
LowerAlpha == <<"a", "b", "c", "d", "e", "f", "g", "h", "i", "j", "k", "l", "m",
                "n", "o", "p", "q", "r", "s", "t", "u", "v", "w", "x", "y", "z">>

Lower(c) ==
    IF \E i \in DOMAIN UpperAlpha : UpperAlpha[i] = c
    THEN LowerAlpha[CHOOSE i \in DOMAIN UpperAlpha : UpperAlpha[i] = c]
    ELSE c

RECURSIVE Like(_, _)
Like(s, pattern) ==
    IF pattern = <<>> THEN s = <<>>
    ELSE IF Head(pattern) = "%"
         THEN Like(s, Tail(pattern)) \/ (s # <<>> /\ Like(Tail(s), pattern))
    ELSE IF s = <<>> THEN FALSE
    ELSE IF Head(pattern) = "_" THEN Like(Tail(s), Tail(pattern))
    ELSE Lower(Head(s)) = Lower(Head(pattern)) /\ Like(Tail(s), Tail(pattern))

IsRawTableName(name) ==
    /\ Like(name, <<"r", "a", "w", "%">>) \/ Like(name, <<"R", "a", "w", "%">>)
    /\ ~Like(name, <<"s", "q", "l", "i", "t", "e", "_", "%">>)

(***************************************************************************)
(* Schema mirror                                                           *)
(***************************************************************************)
Range(f) == {f[i] : i \in DOMAIN f}

Ok(d, stats) == [db |-> d, status |-> "ok", error |-> "none", stats |-> stats]
Err(d, msg, stats) == [db |-> d, status |-> "error", error |-> msg, stats |-> stats]

NoStats ==
    [raw_count |-> 0, stg_before |-> 0, stg_after |-> 0,
     rows_inserted |-> 0, duplicates_removed |-> 0, already_existed |-> 0]

column_defs_meta_first(columns) ==
    <<<<LoadedAt, "TEXT">>, <<SourceTable, "TEXT">>>> \o columns

column_defs(columns) ==
    columns \o <<<<LoadedAt, "TEXT">>, <<SourceTable, "TEXT">>>>

HasDuplicateColumn(defs) ==
    \E i, j \in DOMAIN defs : i < j /\ defs[i][1] = defs[j][1]

CreateTableIfNotExists(d, table_name, defs) ==
    IF d[table_name].exists THEN Ok(d, NoStats)
    ELSE IF HasDuplicateColumn(defs) THEN Err(d, "duplicate column name", NoStats)
    ELSE Ok([d EXCEPT ![table_name] =
                [exists |-> TRUE, cols |-> defs, rows |-> EmptyBag]], NoStats)

create_stg_table_replace(d, raw, stg) ==
    LET columns == get_table_structure(d, raw)
    IN  CreateTableIfNotExists([d EXCEPT ![stg] = NoTable], stg, column_defs(columns))

create_stg_table(d, raw, stg) ==
    LET columns == get_table_structure(d, raw)
    IN  CreateTableIfNotExists(d, stg, column_defs(columns))

(***************************************************************************)
(* Deduplicating merge                                                     *)
(***************************************************************************)
Max(a, b) == IF a >= b THEN a ELSE b

Project(row, names) == [c \in Range(names) |-> row[c]]

SelectDistinct(rows, names) == {Project(r, names) : r \in BagToSet(rows)}

StgRow(p, raw_columns, stg_cols, raw, now) ==
    [c \in ColNamesOf(stg_cols) |->
        IF c \in Range(raw_columns) THEN p[c]
        ELSE IF c = LoadedAt THEN datetime(now)
        ELSE IF c = SourceTable THEN raw
        ELSE NULL]

InsertSelectDistinct_reload(d, raw, stg, raw_columns, now) ==
    LET insert_cols == raw_columns \o <<LoadedAt, SourceTable>>
        selected == SelectDistinct(d[raw].rows, raw_columns)
        new_rows == {StgRow(p, raw_columns, d[stg].cols, raw, now) : p \in selected}
    IN  IF raw_columns = <<>> THEN Err(d, "syntax error", NoStats)
        ELSE IF ~(Range(insert_cols) \subseteq ColNamesOf(d[stg].cols))
             THEN Err(d, "no such column", NoStats)
        ELSE Ok([d EXCEPT ![stg].rows = SetToBag(new_rows)], NoStats)

InsertSelectDistinct(d, raw, stg, raw_columns, now) ==
    LET insert_cols == raw_columns \o <<LoadedAt, SourceTable>>
        selected == SelectDistinct(d[raw].rows, raw_columns)
        new_rows == {StgRow(p, raw_columns, d[stg].cols, raw, now) : p \in selected}
    IN  IF raw_columns = <<>> THEN Err(d, "syntax error", NoStats)
        ELSE IF ~(Range(insert_cols) \subseteq ColNamesOf(d[stg].cols))
             THEN Err(d, "no such column", NoStats)
        ELSE Ok([d EXCEPT ![stg].rows = @ (+) SetToBag(new_rows)], NoStats)

move_data_deduplicated(d, raw, stg, now) ==
    LET raw_columns == get_column_names(d, raw)
    IN  IF ~d[raw].exists THEN Err(d, "no such table", NoStats)
        ELSE IF ~d[stg].exists THEN Err(d, "no such table", NoStats)
        ELSE
          LET raw_count == BagCardinality(d[raw].rows)
              stg_count_before == BagCardinality(d[stg].rows)
              dup_in_raw == count_duplicates_in_raw(d, raw)
              ins == InsertSelectDistinct(d, raw, stg, raw_columns, now)
              stg_count_after == BagCardinality(ins.db[stg].rows)
              actual_new == stg_count_after - stg_count_before
          IN  IF ins.status = "error" THEN ins
              ELSE Ok(ins.db,
                      [raw_count |-> raw_count,
                       stg_before |-> stg_count_before,
                       stg_after |-> stg_count_after,
                       rows_inserted |-> actual_new,
                       duplicates_removed |-> dup_in_raw,
                       already_existed |-> Max(0, raw_count - dup_in_raw - actual_new)])

(***************************************************************************)
(* State machine                                                           *)
(***************************************************************************)
NoOp ==
    [op |-> "none", raw |-> NoName, stg |-> NoName, status |-> "none",
     error |-> "none", stats |-> NoStats, before |-> NoTable, src_existed |-> FALSE]

External == [NoOp EXCEPT !.op = "external"]

Fresh(tbl) == tbl.exists /\ tbl.rows = EmptyBag

Summary(o) == [op |-> o.op, raw |-> o.raw, status |-> o.status, fresh |-> Fresh(o.before)]

NoBatch ==
    [pc |-> "idle", raw_tables |-> <<>>, i |-> 1, results |-> <<>>, ret |-> FALSE,
     runs |-> 0, first_tables |-> {}]

Init ==
    /\ db = [t \in TableNames |-> NoTable]
    /\ clock = 0
    /\ last = NoOp
    /\ prev = Summary(NoOp)
    /\ raw_table_name = NoName
    /\ derived = NoName
    /\ batch = NoBatch

CreateRawTable(t, cols) ==
    /\ ~db[t].exists
    /\ db' = [db EXCEPT ![t] = [exists |-> TRUE, cols |-> cols, rows |-> EmptyBag]]
    /\ last' = External
    /\ prev' = Summary(last)
    /\ UNCHANGED <<clock, raw_table_name, derived, batch>>

DropRawTable(t) ==
    /\ db[t].exists
    /\ db' = [db EXCEPT ![t] = NoTable]
    /\ last' = External
    /\ prev' = Summary(last)
    /\ UNCHANGED <<clock, raw_table_name, derived, batch>>

AppendRow(t, row) ==
    /\ db[t].exists
    /\ BagCardinality(db[t].rows) < MaxRawRows
    /\ db' = [db EXCEPT ![t].rows = @ (+) SetToBag({row})]
    /\ last' = External
    /\ prev' = Summary(last)
    /\ UNCHANGED <<clock, raw_table_name, derived, batch>>

Tick ==
    /\ clock + 1 < Len(TimeStamps)
    /\ clock' = clock + 1
    /\ UNCHANGED <<db, last, prev, raw_table_name, derived, batch>>

Outcome(op, raw, stg, r) ==
    [op |-> op, raw |-> raw, stg |-> stg, status |-> r.status, error |-> r.error,
     stats |-> r.stats, before |-> db[stg], src_existed |-> db[raw].exists]

CreateStgTable(raw) ==
    LET stg == create_stg_table_name(raw)
        r == create_stg_table(db, raw, stg)
    IN  /\ db' = r.db
        /\ last' = Outcome("create_stg_table", raw, stg, r)
        /\ prev' = Summary(last)
        /\ UNCHANGED <<clock, raw_table_name, derived, batch>>

MoveDataDeduplicated(raw) ==
    LET stg == create_stg_table_name(raw)
        r == move_data_deduplicated(db, raw, stg, clock)
    IN  /\ BagCardinality(r.db[stg].rows) <= MaxStgRows
        /\ db' = r.db
        /\ last' = Outcome("move_data_deduplicated", raw, stg, r)
        /\ prev' = Summary(last)
        /\ UNCHANGED <<clock, raw_table_name, derived, batch>>

Next ==
    \/ \E t \in ApiSources, cols \in SourceSchemas : CreateRawTable(t, cols)
    \/ \E t \in ApiSources : DropRawTable(t)
    \/ \E t \in ApiSources : \E row \in RowsOver(db[t].cols) : AppendRow(t, row)
    \/ Tick
    \/ \E raw \in ApiSources : CreateStgTable(raw)
    \/ \E raw \in ApiSources : MoveDataDeduplicated(raw)

Spec == Init /\ [][Next]_vars

(***************************************************************************)
(* Destination naming as a pure function over bounded inputs               *)
(***************************************************************************)
InitName ==
    /\ db = [t \in TableNames |-> NoTable]
    /\ clock = 0
    /\ last = NoOp
    /\ prev = Summary(NoOp)
    /\ raw_table_name \in NameInputs
    /\ derived = NoName
    /\ batch = NoBatch

DeriveName ==
    /\ derived = NoName
    /\ derived' = create_stg_table_name(raw_table_name)
    /\ UNCHANGED <<db, clock, last, prev, raw_table_name, batch>>

NextName == DeriveName

SpecName == InitName /\ [][NextName]_vars


(***************************************************************************)
(* Batch driver process_raw_to_stg                                         *)
(***************************************************************************)
rAwB == <<"r", "A", "w", "B">>
xRaw == <<"x", "R", "a", "w">>

BatchRawNames == {RawA, rAwB}
BatchTableNames ==
    BatchRawNames \cup {xRaw} \cup {create_stg_table_name(n) : n \in BatchRawNames}

AsciiOrder == UpperAlpha \o <<"_">> \o LowerAlpha

CharCode(c) == CHOOSE k \in DOMAIN AsciiOrder : AsciiOrder[k] = c

RECURSIVE NameLess(_, _)
NameLess(a, b) ==
    IF a = <<>> THEN b # <<>>
    ELSE IF b = <<>> THEN FALSE
    ELSE IF Head(a) = Head(b) THEN NameLess(Tail(a), Tail(b))
    ELSE CharCode(Head(a)) < CharCode(Head(b))

RECURSIVE OrderByName(_)
OrderByName(S) ==
    IF S = {} THEN <<>>
    ELSE LET first == CHOOSE x \in S : \A y \in S \ {x} : NameLess(x, y)
         IN  <<first>> \o OrderByName(S \ {first})

ExistingTables(d) == {t \in DOMAIN d : d[t].exists}

get_all_raw_tables(d) ==
    OrderByName({t \in ExistingTables(d) : IsRawTableName(t)})

Success(raw_table, stg_table, stats) ==
    [raw_table |-> raw_table, stg_table |-> stg_table, success |-> TRUE,
     stats |-> stats, error |-> "none"]

Failure(raw_table, stg_table, error) ==
    [raw_table |-> raw_table, stg_table |-> stg_table, success |-> FALSE,
     stats |-> NoStats, error |-> error]

try_table(d, raw_table, now) ==
    LET stg_table == create_stg_table_name(raw_table)
        created == create_stg_table(d, raw_table, stg_table)
        moved == move_data_deduplicated(created.db, raw_table, stg_table, now)
    IN  IF created.status = "error"
        THEN [db |-> created.db, result |-> Failure(raw_table, stg_table, created.error)]
        ELSE IF moved.status = "error"
        THEN [db |-> moved.db, result |-> Failure(raw_table, stg_table, moved.error)]
        ELSE [db |-> moved.db, result |-> Success(raw_table, stg_table, moved.stats)]

loop_step_break(b, d, now) ==
    LET r == try_table(d, b.raw_tables[b.i], now)
    IN  [batch |-> [b EXCEPT !.results = Append(@, r.result),
                             !.i = IF r.result.success THEN @ + 1
                                   ELSE Len(b.raw_tables) + 1],
         db |-> r.db]

loop_step(b, d, now) ==
    LET r == try_table(d, b.raw_tables[b.i], now)
    IN  [batch |-> [b EXCEPT !.results = Append(@, r.result), !.i = @ + 1],
         db |-> r.db]

failed(results) == {k \in DOMAIN results : ~results[k].success}
successful(results) == {k \in DOMAIN results : results[k].success}

all_succeeded_any(results) == successful(results) # {}

all_succeeded(results) == failed(results) = {}

RECURSIVE SeqToBag(_)
SeqToBag(s) ==
    IF s = <<>> THEN EmptyBag ELSE SetToBag({Head(s)}) (+) SeqToBag(Tail(s))

TablesOver(cols, n) ==
    {[exists |-> TRUE, cols |-> cols, rows |-> SeqToBag(s)] :
        s \in SeqsUpTo(RowsOver(cols), n)}

IdOnly == <<<<ColId, "INTEGER">>>>

RawAChoices == {NoTable} \cup UNION {TablesOver(cols, MaxRawRows) : cols \in SourceSchemas}
rAwBChoices == {NoTable} \cup TablesOver(IdOnly, MaxRawRows)
xRawChoices == {NoTable} \cup TablesOver(IdOnly, 0)
stgAChoices == {NoTable, [exists |-> TRUE, cols |-> column_defs(IdOnly), rows |-> EmptyBag]}

BatchStores ==
    {[t \in BatchTableNames |->
        IF t = RawA THEN a
        ELSE IF t = rAwB THEN b
        ELSE IF t = xRaw THEN x
        ELSE IF t = create_stg_table_name(RawA) THEN s
        ELSE NoTable] :
     a \in RawAChoices, b \in rAwBChoices, x \in xRawChoices, s \in stgAChoices}

InitBatch ==
    /\ db \in BatchStores
    /\ clock = 0
    /\ last = NoOp
    /\ prev = Summary(NoOp)
    /\ raw_table_name = NoName
    /\ derived = NoName
    /\ batch = NoBatch

StartFails ==
    /\ batch.pc = "idle"
    /\ batch.runs < MaxRuns
    /\ batch' = [batch EXCEPT !.pc = "done", !.ret = FALSE]
    /\ UNCHANGED <<db, clock, last, prev, raw_table_name, derived>>

Discover ==
    /\ batch.pc = "idle"
    /\ batch.runs < MaxRuns
    /\ LET raw_tables == get_all_raw_tables(db)
       IN  batch' = IF raw_tables = <<>>
                    THEN [batch EXCEPT !.pc = "done", !.ret = FALSE]
                    ELSE [batch EXCEPT !.pc = "loop", !.raw_tables = raw_tables]
    /\ UNCHANGED <<db, clock, last, prev, raw_table_name, derived>>

LoopStep ==
    /\ batch.pc = "loop"
    /\ batch.i <= Len(batch.raw_tables)
    /\ LET r == loop_step(batch, db, clock)
       IN  /\ batch' = r.batch
           /\ db' = r.db
    /\ UNCHANGED <<clock, last, prev, raw_table_name, derived>>

Finish ==
    /\ batch.pc = "loop"
    /\ batch.i > Len(batch.raw_tables)
    /\ batch' = [batch EXCEPT !.pc = "done",
                              !.ret = all_succeeded(batch.results),
                              !.runs = @ + 1,
                              !.first_tables =
                                  IF batch.runs = 0 THEN ExistingTables(db) ELSE @]
    /\ UNCHANGED <<db, clock, last, prev, raw_table_name, derived>>

RunAgain ==
    /\ batch.pc = "done"
    /\ batch' = [NoBatch EXCEPT !.runs = batch.runs,
                                !.first_tables = batch.first_tables]
    /\ UNCHANGED <<db, clock, last, prev, raw_table_name, derived>>

TickIdle == batch.pc = "idle" /\ Tick

NextBatch ==
    \/ StartFails
    \/ Discover
    \/ LoopStep
    \/ Finish
    \/ RunAgain
    \/ TickIdle

SpecBatch == InitBatch /\ [][NextBatch]_vars

(***************************************************************************)
(* Properties                                                              *)
(***************************************************************************)
Created == last.op = "create_stg_table"
Merged == last.op = "move_data_deduplicated"
MergedOk == Merged /\ last.status = "ok"

RawRows == db[last.raw].rows
StgRows == db[last.stg].rows
N == BagCardinality(RawRows)
D == N - Cardinality(BagToSet(RawRows))

MetaNames == {LoadedAt, SourceTable}

SecondRun ==
    /\ MergedOk
    /\ prev.op = "move_data_deduplicated"
    /\ prev.status = "ok"
    /\ prev.raw = last.raw
    /\ prev.fresh

\* C1: a second merge run directly after a first one into an initially empty
\* destination, on the unchanged source, reports rows_inserted = 0 and
\* already_existed = N - D and leaves the destination row count as it was.
C1_SecondRunInsertsNothing ==
    SecondRun =>
        /\ last.stats.rows_inserted = 0
        /\ last.stats.already_existed = N - D
        /\ BagCardinality(StgRows) = BagCardinality(last.before.rows)

\* C2: every successful merge result satisfies
\* raw_count = duplicates_removed + already_existed + rows_inserted.
C2_CountsAddUp ==
    MergedOk =>
        last.stats.raw_count =
            last.stats.duplicates_removed + last.stats.already_existed
                + last.stats.rows_inserted

C2_Witness ==
    /\ MergedOk
    /\ last.stats.stg_before > 0
    /\ last.stats.rows_inserted > 0
    /\ last.stats.already_existed > 0

FreshMirror ==
    /\ MergedOk
    /\ Fresh(last.before)
    /\ last.before.cols = db[last.raw].cols \o <<<<LoadedAt, "TEXT">>, <<SourceTable, "TEXT">>>>
    /\ N > 0

\* C3: a merge of a non-empty source (N rows, D exact duplicates) into a
\* freshly created, empty destination inserts exactly N - D rows and reports
\* duplicates_removed = D and already_existed = 0.
C3_FreshMergeInsertsDistinct ==
    FreshMirror =>
        /\ last.stats.rows_inserted = N - D
        /\ BagCardinality(StgRows) = N - D
        /\ last.stats.duplicates_removed = D
        /\ last.stats.already_existed = 0

SameData(r1, r2) ==
    \A c \in (DOMAIN r1) \ MetaNames : r1[c] = r2[c]

Destinations == {create_stg_table_name(s) : s \in ApiSources}

\* C4: a destination never holds two rows that are equal on all non-metadata
\* columns.
C4_NoRepeatedStgRow ==
    \A t \in Destinations :
        \A r1, r2 \in BagToSet(db[t].rows) :
            SameData(r1, r2) => (r1 = r2 /\ CopiesIn(r1, db[t].rows) = 1)

\* C5: after a successful merge every source row has a destination row that
\* carries the same value in every column of the source's table descriptor.
C5_EverySourceColumnCopied ==
    MergedOk =>
        \A r \in BagToSet(RawRows) :
            \E s \in BagToSet(StgRows) :
                \A c \in ColNamesOf(db[last.raw].cols) :
                    c \in DOMAIN s /\ s[c] = r[c]

LowerSeq(s) == [i \in DOMAIN s |-> Lower(s[i])]

HasRawPrefixAnyCase(name) ==
    Len(name) >= 3 /\ LowerSeq(SubSeq(name, 1, 3)) = <<"r", "a", "w">>

Stripped(name) == <<"s", "t", "g">> \o SubSeq(name, 4, Len(name))

\* C6: a name whose first three characters are 'raw' in any capitalization
\* maps to 'stg' + remainder, every other name to 'stg_' + name; every name
\* the discovery query matches is mapped by stripping its prefix.
C6_PrefixStrippedAnyCase ==
    derived # NoName =>
        /\ derived = create_stg_table_name(raw_table_name)
        /\ HasRawPrefixAnyCase(raw_table_name) => derived = Stripped(raw_table_name)
        /\ ~HasRawPrefixAnyCase(raw_table_name)
              => derived = <<"s", "t", "g", "_">> \o raw_table_name
        /\ IsRawTableName(raw_table_name) => derived = Stripped(raw_table_name)

StgHadExtraColumns ==
    /\ Merged
    /\ last.src_existed
    /\ last.before.exists
    /\ ColNamesOf(last.before.cols) \ (ColNamesOf(db[last.raw].cols) \cup MetaNames) # {}

\* C7: when the destination already exists with columns the source lacks, the
\* merge fails and the destination's row count is what it was before.
C7_ExtraStgColumnsRejected ==
    StgHadExtraColumns =>
        /\ last.status = "error"
        /\ BagCardinality(StgRows) = BagCardinality(last.before.rows)

\* C8: create_stg_table leaves an existing destination's columns and rows
\* unchanged, and a second call in a row yields the same destination as the
\* first.
C8_CreateStgTableIdempotent ==
    Created =>
        /\ last.before.exists => db[last.stg] = last.before
        /\ (prev.op = "create_stg_table" /\ prev.raw = last.raw)
              => db[last.stg] = last.before

C8_Witness ==
    /\ Created
    /\ prev.op = "create_stg_table"
    /\ prev.raw = last.raw
    /\ last.before.exists
    /\ last.before.rows # EmptyBag
    /\ db[last.raw].exists
    /\ last.before.cols # db[last.raw].cols \o <<<<LoadedAt, "TEXT">>, <<SourceTable, "TEXT">>>>

NewlyCreated == Created /\ ~last.before.exists /\ db[last.stg].exists

\* C9: a destination that create_stg_table creates has exactly the source's
\* (name, type) pairs in order, then '_loaded_at' TEXT, then '_source_table'
\* TEXT.
C9_MirroredColumns ==
    NewlyCreated =>
        LET src == get_table_structure(db, last.raw)
            dst == db[last.stg].cols
        IN  /\ Len(dst) = Len(src) + 2
            /\ \A i \in DOMAIN src : dst[i] = src[i]
            /\ dst[Len(src) + 1] = <<LoadedAt, "TEXT">>
            /\ dst[Len(src) + 2] = <<SourceTable, "TEXT">>

C9_Witness ==
    /\ NewlyCreated
    /\ db[last.raw].cols = <<<<ColId, "INTEGER">>, <<ColName, "TEXT">>>>
    /\ db[last.raw].rows # EmptyBag

\* C10: when the source table does not exist, create_stg_table itself signals
\* an error and creates nothing.
C10_MissingSourceFailsAtSchemaStep ==
    (Created /\ ~last.src_existed) =>
        /\ last.status = "error"
        /\ db[last.stg] = last.before


StgKept(t) ==
    db[t].exists =>
        /\ db'[t].exists
        /\ db'[t].cols = db[t].cols
        /\ \A r \in BagToSet(db[t].rows) :
              CopiesIn(r, db'[t].rows) >= CopiesIn(r, db[t].rows)

\* C13: no step deletes or changes a destination row: every row a destination
\* holds before a step it holds afterwards, with the same values in every
\* column, the metadata columns included, whether the call succeeds or fails.
C13_StgRowsOnlyGrow == [][\A t \in Destinations : StgKept(t)]_vars

C13_Witness ==
    /\ Merged
    /\ last.status = "error"
    /\ last.before.rows # EmptyBag
    /\ db[last.stg] = last.before

EmptySource == last.src_existed /\ db[last.raw].exists /\ N = 0

\* C14: for a source that exists and holds no rows, create_stg_table creates
\* the missing destination with the mirrored schema, and the merge that follows
\* succeeds with all four counts zero and leaves the destination as it was.
C14_EmptySourceSucceeds ==
    /\ (Created /\ EmptySource /\ ~last.before.exists) =>
          /\ last.status = "ok"
          /\ db[last.stg].exists
          /\ db[last.stg].cols =
                db[last.raw].cols \o <<<<LoadedAt, "TEXT">>, <<SourceTable, "TEXT">>>>
    /\ (Merged /\ EmptySource /\ prev.op = "create_stg_table" /\ prev.raw = last.raw
            /\ last.before.exists
            /\ last.before.cols =
                  db[last.raw].cols \o <<<<LoadedAt, "TEXT">>, <<SourceTable, "TEXT">>>>) =>
          /\ last.status = "ok"
          /\ last.stats.raw_count = 0
          /\ last.stats.duplicates_removed = 0
          /\ last.stats.already_existed = 0
          /\ last.stats.rows_inserted = 0
          /\ db[last.stg] = last.before


Processed == batch.pc = "done" /\ batch.raw_tables # <<>>

\* C11: in a batch run over a non-empty list of discovered tables a failure
\* never stops the loop: every discovered table gets exactly one result record,
\* in discovery order, a success with the stats of its merge or a failure with
\* an error message, also for the tables after a failed one.
C11_OneRecordPerTable ==
    /\ batch.pc = "loop" => Len(batch.results) = batch.i - 1
    /\ Processed => Len(batch.results) = Len(batch.raw_tables)
    /\ \A k \in DOMAIN batch.results :
          LET rec == batch.results[k]
          IN  /\ k <= Len(batch.raw_tables)
              /\ rec.raw_table = batch.raw_tables[k]
              /\ rec.stg_table = create_stg_table_name(rec.raw_table)
              /\ ~rec.success => rec.error # "none"
              /\ rec.success =>
                    /\ rec.error = "none"
                    /\ db[rec.stg_table].exists
                    /\ rec.stats.raw_count = BagCardinality(db[rec.raw_table].rows)
                    /\ rec.stats.stg_after = BagCardinality(db[rec.stg_table].rows)

C11_Witness ==
    /\ Processed
    /\ Len(batch.results) = 2
    /\ ~batch.results[1].success
    /\ batch.results[2].success
    /\ batch.results[2].stats.rows_inserted > 0

\* C12: the flag process_raw_to_stg returns is true only if every per-table
\* result record is a success: with at least one failure record it is False.
C12_FlagOnlyIfAllSucceeded ==
    batch.pc = "done" =>
        /\ failed(batch.results) # {} => batch.ret = FALSE
        /\ batch.ret = TRUE => \A k \in DOMAIN batch.results : batch.results[k].success

C12_Witness ==
    /\ batch.pc = "done"
    /\ batch.ret = FALSE
    /\ \E k \in DOMAIN batch.results : batch.results[k].success
    /\ \E k \in DOMAIN batch.results :
          ~batch.results[k].success /\ batch.results[k].error = "no such column"

StgPrefix == <<"s", "t", "g">>

AllDerivedNamesAreStg ==
    \A n \in NameInputs :
        LET d == create_stg_table_name(n)
        IN  startswith(d, StgPrefix) /\ ~IsRawTableName(d)

\* C15: every name create_stg_table_name returns starts with 'stg' and is not
\* matched by get_all_raw_tables, no discovered table is a table the pipeline
\* created, and after the first completed batch run later runs leave the set
\* of tables in the database as it was.
C15_NoStagingOfStaging ==
    /\ AllDerivedNamesAreStg
    /\ \A k \in DOMAIN batch.raw_tables :
          batch.raw_tables[k] \notin {create_stg_table_name(n) : n \in DOMAIN db}
    /\ batch.runs >= 1 => ExistingTables(db) = batch.first_tables

C15_Witness ==
    /\ batch.pc = "done"
    /\ batch.runs >= 2
    /\ Len(batch.results) = 2
    /\ \A k \in DOMAIN batch.results : batch.results[k].success
    /\ Cardinality(ExistingTables(db)) >= 4

====
